---- MODULE Spec2Model ----
(***************************************************************************)
(* Model of the diffusion noise-schedule engine (linspace, getBetas,       *)
(* calculateSchedule, solveBetaEndForSNR).                                 *)
(*                                                                         *)
(* A TypeScript `number` is an IEEE-754 binary64 value.  The model keeps   *)
(* the IEEE-754 semantics (round to nearest, ties to even; gradual         *)
(* underflow; overflow to an infinity; NaN) and scales the format down:    *)
(* a significand of Prec bits instead of 53, a smallest positive value of  *)
(* 2^-MinExp instead of 2^-1074, and finite values below 2^MaxExp instead  *)
(* of 2^1024.  A value is a pair <<m, e>> that stands for m * 2^e.  As in  *)
(* the IEEE encoding the largest exponent field is reserved: <<0,          *)
(* SpecialExp>> is NaN and <<1, SpecialExp>>, <<-1, SpecialExp>> are the   *)
(* infinities.  Every finite value is kept canonical (significand of       *)
(* exactly Prec bits unless the exponent is the smallest one; zero is      *)
(* <<0, 0>>), so that equality of pairs is equality of numbers.  The sign  *)
(* of zero is not modelled: no operation of the engine tells -0 from +0    *)
(* other than through 1/0, which the engine never computes on a zero of    *)
(* either sign.                                                            *)
(***************************************************************************)
EXTENDS Integers, Sequences, FiniteSets, TLC

Prec == 10
MinExp == 78
MaxExp == 64
SpecialExp == MaxExp + 1

(* The pairs numbers are drawn from.  The operations on numbers are        *)
(* functions on this set, so that their arguments are values.              *)
Num == Int \X Int

NaN == <<0, SpecialExp>>
PosInf == <<1, SpecialExp>>
NegInf == <<-1, SpecialExp>>
Zero == <<0, 0>>

IsNaN(a) == a = NaN
IsInf(a) == a[2] = SpecialExp /\ a[1] # 0
IsFinite(a) == a[2] # SpecialExp
IsZero(a) == a = Zero

Abs(n) == IF n < 0 THEN -n ELSE n
Sign(n) == IF n < 0 THEN -1 ELSE IF n > 0 THEN 1 ELSE 0

(* The value of Body at v, with v evaluated once. *)
With(v, Body(_)) == CHOOSE r \in {Body(x) : x \in {v}} : TRUE

BitLen[n \in Nat] == IF n = 0 THEN 0 ELSE 1 + BitLen[n \div 2]

(* The value s * m * 2^e unless it is too large to be finite. *)
Pack(s, m, e) ==
  IF e + Prec > MaxExp THEN (IF s > 0 THEN PosInf ELSE NegInf) ELSE <<s * m, e>>

(* Rnd for M > 0 of L bits, sh bits of which are to be dropped. *)
RndShift[s \in Int, M \in Nat, E \in Int, L \in Nat, sh \in Int] ==
  IF sh <= 0
  THEN LET k == IF Prec - L < E + MinExp THEN Prec - L ELSE E + MinExp
       IN Pack(s, M * 2^k, E - k)
  ELSE IF sh > L THEN Zero
  ELSE LET q == M \div 2^sh
           r == M % 2^sh
           half == 2^(sh - 1)
           up == IF r > half \/ (r = half /\ q % 2 = 1) THEN 1 ELSE 0
       IN IF q + up = 0 THEN Zero
          ELSE IF q + up = 2^Prec THEN Pack(s, 2^(Prec - 1), E + sh + 1)
          ELSE Pack(s, q + up, E + sh)

RndLen[s \in Int, M \in Nat, E \in Int, L \in Nat] ==
  RndShift[s, M, E, L,
           IF L - Prec > (0 - MinExp) - E THEN L - Prec ELSE (0 - MinExp) - E]

(* The number nearest to s * M * 2^E (M >= 0), ties to even. *)
Rnd[s \in Int, M \in Nat, E \in Int] ==
  IF M = 0 THEN Zero ELSE RndLen[s, M, E, BitLen[M]]

(* A numeric literal of the source: M * 2^E is the literal's binary        *)
(* expansion cut after 24 bits, with a last bit set when bits were cut.    *)
Lit(M, E) == Rnd[1, M, E]

FromInt[n \in Int] == Rnd[IF n < 0 THEN -1 ELSE 1, Abs(n), 0]

One == FromInt[1]
Two == FromInt[2]
Ten == FromInt[10]

(* Significand and exponent of a finite non-zero value with the            *)
(* significand shifted up to exactly Prec bits.                            *)
NormM[a \in Num] == Abs(a[1]) * 2^(Prec - BitLen[Abs(a[1])])
NormE[a \in Num] == a[2] - (Prec - BitLen[Abs(a[1])])

FNeg[a \in Num] == IF IsNaN(a) THEN NaN ELSE <<0 - a[1], a[2]>>

(* hi + lo for finite non-zero values, the exponent of hi the larger. *)
AddOrdered[hi \in Num, lo \in Num] ==
  LET d == hi[2] - lo[2]
      near == d <= Prec + 2
      sum == IF near THEN hi[1] * 2^d + lo[1]
             ELSE hi[1] * 2^(Prec + 2) + Sign(lo[1])
      e == IF near THEN lo[2] ELSE hi[2] - (Prec + 2)
  IN Rnd[IF sum < 0 THEN -1 ELSE 1, Abs(sum), e]

FAdd[a \in Num, b \in Num] ==
  IF IsNaN(a) \/ IsNaN(b) THEN NaN
  ELSE IF IsInf(a) THEN (IF IsInf(b) /\ a # b THEN NaN ELSE a)
  ELSE IF IsInf(b) THEN b
  ELSE IF a[1] = 0 THEN b
  ELSE IF b[1] = 0 THEN a
  ELSE IF a[2] >= b[2] THEN AddOrdered[a, b] ELSE AddOrdered[b, a]

FSub[a \in Num, b \in Num] == FAdd[a, FNeg[b]]

FMul[a \in Num, b \in Num] ==
  IF IsNaN(a) \/ IsNaN(b) THEN NaN
  ELSE IF IsInf(a) \/ IsInf(b)
       THEN (IF a[1] = 0 \/ b[1] = 0 THEN NaN
             ELSE IF Sign(a[1]) = Sign(b[1]) THEN PosInf ELSE NegInf)
  ELSE Rnd[Sign(a[1]) * Sign(b[1]), Abs(a[1]) * Abs(b[1]), a[2] + b[2]]

(* The quotient of num by den with a last bit set when it is inexact. *)
StickyDiv[num \in Nat, den \in Nat] ==
  2 * (num \div den) + (IF num % den = 0 THEN 0 ELSE 1)

FDiv[a \in Num, b \in Num] ==
  IF IsNaN(a) \/ IsNaN(b) THEN NaN
  ELSE IF IsInf(a) THEN (IF IsInf(b) THEN NaN
                         ELSE IF Sign(a[1]) * Sign(b[1]) < 0 THEN NegInf ELSE PosInf)
  ELSE IF IsInf(b) THEN Zero
  ELSE IF b[1] = 0 THEN (IF a[1] = 0 THEN NaN
                         ELSE IF a[1] < 0 THEN NegInf ELSE PosInf)
  ELSE IF a[1] = 0 THEN Zero
  ELSE Rnd[Sign(a[1]) * Sign(b[1]),
           StickyDiv[NormM[a] * 2^(Prec + 2), NormM[b]],
           NormE[a] - NormE[b] - (Prec + 2) - 1]

ISqrtBits[M \in Nat, r \in Nat, b \in Nat] ==
  IF b = 0 THEN r
  ELSE IF (r + b) * (r + b) <= M THEN ISqrtBits[M, r + b, b \div 2]
  ELSE ISqrtBits[M, r, b \div 2]

(* The integer square root of M < 2^30, rounded down. *)
ISqrt[M \in Nat] == ISqrtBits[M, 0, 2^14]

(* Twice the root r of M with a last bit set when it is inexact. *)
StickyRoot[M \in Nat, r \in Nat] == 2 * r + (IF r * r = M THEN 0 ELSE 1)

(* The square root of m * 2^e, m of Prec bits, with k more bits. *)
SqrtShifted[m \in Nat, e \in Int, k \in Nat] ==
  Rnd[1, StickyRoot[m * 2^k, ISqrt[m * 2^k]], ((e - k) \div 2) - 1]

(* Math.sqrt. *)
FSqrt[a \in Num] ==
  IF IsNaN(a) \/ a[1] < 0 THEN NaN
  ELSE IF IsInf(a) THEN PosInf
  ELSE IF a[1] = 0 THEN Zero
  ELSE SqrtShifted[NormM[a], NormE[a],
                   IF (NormE[a] - (Prec + 2)) % 2 = 0 THEN Prec + 2 ELSE Prec + 3]

FLt(a, b) ==
  /\ ~IsNaN(a)
  /\ ~IsNaN(b)
  /\ LET sa == Sign(a[1])
         sb == Sign(b[1])
     IN IF sa # sb THEN sa < sb
        ELSE IF sa = 0 THEN FALSE
        ELSE IF sa > 0 THEN a[2] < b[2] \/ (a[2] = b[2] /\ a[1] < b[1])
        ELSE a[2] > b[2] \/ (a[2] = b[2] /\ a[1] < b[1])

FGt(a, b) == FLt(b, a)
FEq(a, b) == ~IsNaN(a) /\ a = b
FLe(a, b) == FLt(a, b) \/ FEq(a, b)

(* Math.max of two numbers. *)
FMax[a \in Num, b \in Num] ==
  IF IsNaN(a) \/ IsNaN(b) THEN NaN ELSE IF FLt(a, b) THEN b ELSE a

(* Math.floor. *)
FFloor[a \in Num] ==
  IF ~IsFinite(a) \/ a[2] >= 0 THEN a
  ELSE IF 0 - a[2] > 30 THEN FromInt[IF a[1] < 0 THEN -1 ELSE 0]
  ELSE FromInt[a[1] \div 2^(0 - a[2])]

(* The integer a finite whole number below 2^30 in size stands for. *)
ToInt[a \in Num] == IF a[2] >= 0 THEN a[1] * 2^a[2] ELSE a[1] \div 2^(0 - a[2])

(***************************************************************************)
(* Math.log2, Math.log10 and Math.pow(2, v) are implementation-            *)
(* approximated in ECMAScript.  They are computed here in fixed point with *)
(* FracBits fractional bits, which is more than the format keeps, and the  *)
(* result is then rounded to the format.  As the library functions are,    *)
(* they are exact on the powers of two.                                    *)
(***************************************************************************)
FracBits == 14

(* The fraction bits of log2(y / 2^FracBits) for 2^FracBits <= y <         *)
(* 2^(FracBits+1), by repeated squaring.                                   *)
Log2Frac[y \in Nat, i \in Nat, acc \in Nat] ==
  IF i = FracBits THEN acc
  ELSE IF (y * y) \div 2^FracBits >= 2^(FracBits + 1)
       THEN Log2Frac[(y * y) \div 2^(FracBits + 1), i + 1, 2 * acc + 1]
       ELSE Log2Frac[(y * y) \div 2^FracBits, i + 1, 2 * acc]

(* log2 of a finite positive value: whole part and fraction bits. *)
Log2Whole[a \in Num] == NormE[a] + Prec - 1
Log2Bits[a \in Num] == Log2Frac[NormM[a] * 2^(FracBits - (Prec - 1)), 0, 0]

RndSigned[v \in Int, e \in Int] == Rnd[IF v < 0 THEN -1 ELSE 1, Abs(v), e]

(* Math.log2. *)
FLog2[a \in Num] ==
  IF IsNaN(a) \/ a[1] < 0 THEN NaN
  ELSE IF IsInf(a) THEN PosInf
  ELSE IF a[1] = 0 THEN NegInf
  ELSE RndSigned[Log2Whole[a] * 2^FracBits + Log2Bits[a], 0 - FracBits]

(* log10(2) with 24 and with 16 fractional bits. *)
Log10Of2Q24 == 5050445
Log10Of2Q16 == 19728

(* Math.log10. *)
FLog10[a \in Num] ==
  IF IsNaN(a) \/ a[1] < 0 THEN NaN
  ELSE IF IsInf(a) THEN PosInf
  ELSE IF a[1] = 0 THEN NegInf
  ELSE RndSigned[Log2Whole[a] * Log10Of2Q24 + ((Log2Bits[a] * Log10Of2Q16) \div 2^6),
                 -24]

(* 2^(1/2), 2^(1/4), ..., 2^(1/2^FracBits) with FracBits fractional bits. *)
Root2Table ==
  <<23170, 19484, 17867, 17109, 16743, 16562, 16473, 16428, 16406, 16395,
    16390, 16387, 16385, 16385>>

(* 2^(f / 2^FracBits) for 0 <= f < 2^FracBits, with FracBits fractional    *)
(* bits: the product of the roots of two the bits of f select.             *)
Pow2Frac[f \in Nat, i \in Nat, y \in Nat] ==
  IF i > FracBits THEN y
  ELSE IF (f \div 2^(FracBits - i)) % 2 = 1
       THEN Pow2Frac[f, i + 1, (y * Root2Table[i] + 2^(FracBits - 1)) \div 2^FracBits]
       ELSE Pow2Frac[f, i + 1, y]

(* 2^(m / 2^sh) for 0 < sh <= 30. *)
Pow2Split[m \in Int, sh \in Nat] ==
  Rnd[1,
      Pow2Frac[IF sh <= FracBits THEN (m % 2^sh) * 2^(FracBits - sh)
               ELSE (m % 2^sh) \div 2^(sh - FracBits), 1, 2^FracBits],
      (m \div 2^sh) - FracBits]

(* Math.pow(2, v). *)
FPow2[v \in Num] ==
  IF IsNaN(v) THEN NaN
  ELSE IF v = PosInf THEN PosInf
  ELSE IF v = NegInf THEN Zero
  ELSE IF v[1] = 0 THEN One
  ELSE IF BitLen[Abs(v[1])] + v[2] > 8 THEN (IF v[1] > 0 THEN PosInf ELSE Zero)
  ELSE IF v[2] >= 0 THEN Rnd[1, 1, ToInt[v]]
  ELSE IF BitLen[Abs(v[1])] + v[2] < 0 - FracBits THEN One
  ELSE Pow2Split[v[1], 0 - v[2]]

(***************************************************************************)
(* The numeric literals of the engine.                                     *)
(***************************************************************************)
LogFloor == Lit(28823037, -58)        \* 1e-10
DenomFloor == Lit(18446745, -64)      \* 1e-12
SnrFloor == Lit(24758801, -91)        \* 1e-20
InitialLow == Lit(28147497, -48)      \* 0.0000001
InitialHigh == Lit(33520877, -25)     \* 0.999
MaxIterations == 40

(* The length Array.from({ length: count }) gives its result. *)
ArrayLength(count) == IF IsNaN(count) \/ FLt(count, Zero) THEN 0 ELSE ToInt[count]

(* Array.prototype.map. *)
Map(F(_), s) == [i \in 1..Len(s) |-> F(s[i])]

(* linspace for a count of at least 2. *)
Spaced[start \in Num, step \in Num, len \in Nat] ==
  [i \in 1..len |-> FAdd[start, FMul[step, FromInt[i - 1]]]]

Linspace[start \in Num, end \in Num, count \in Num] ==
  IF FLt(count, Two) THEN <<start>>
  ELSE Spaced[start, FDiv[FSub[end, start], FSub[count, One]], ArrayLength(count)]

(* Variant: a single-value result holds end, not start. *)
linspaceEndWhenSingle(start, end, n) ==
  IF FLt(FMax[One, FFloor[n]], Two) THEN <<end>>
  ELSE Linspace[start, end, FMax[One, FFloor[n]]]

(* Variant: the count is at least 2, not at least 1. *)
linspaceAtLeastTwo(start, end, n) == Linspace[start, end, FMax[Two, FFloor[n]]]

(* Variant: the step divides by count, not by count - 1. *)
linspaceStepOverCount(start, end, n) ==
  IF FLt(FMax[One, FFloor[n]], Two) THEN <<start>>
  ELSE Spaced[start, FDiv[FSub[end, start], FMax[One, FFloor[n]]],
              ArrayLength(FMax[One, FFloor[n]])]

(* const count = Math.max(1, Math.floor(n)); ... *)
linspace(start, end, n) == Linspace[start, end, FMax[One, FFloor[n]]]

Square(v) == FMul[v, v]

(* Variant: one division instead of a reciprocal and a product. *)
RecipOfDivision(betaEnd, v) == FDiv[betaEnd, v]

(* v => betaEnd * (1 / v) *)
RecipOf(betaEnd, v) == FMul[betaEnd, FDiv[One, v]]

(* Variant: the argument of the logarithm is not floored. *)
LogArgumentUnfloored(beta) == beta

(* Math.max(1e-10, betaStart), Math.max(1e-10, betaEnd) *)
LogArgument(beta) == FMax[LogFloor, beta]

(* Variant: an unknown family falls back to CONST. *)
DefaultBetasConst(betaStart, betaEnd, n) == [i \in 1..ArrayLength(n) |-> betaEnd]

(* default: return linspace(betaStart, betaEnd, n) *)
DefaultBetas(betaStart, betaEnd, n) == linspace(betaStart, betaEnd, n)

GetBetas[betaStart \in Num, betaEnd \in Num, n \in Num, schedule \in STRING] ==
  CASE schedule = "linear" -> linspace(betaStart, betaEnd, n)
    [] schedule = "quad" ->
         Map(LAMBDA v : FMul[v, v], linspace(FSqrt[betaStart], FSqrt[betaEnd], n))
    [] schedule = "sqrt" ->
         Map(LAMBDA v : FSqrt[v], linspace(Square(betaStart), Square(betaEnd), n))
    [] schedule = "const" -> [i \in 1..ArrayLength(n) |-> betaEnd]
    [] schedule = "recip" ->
         Map(LAMBDA v : RecipOf(betaEnd, v), linspace(n, One, n))
    [] schedule = "log" ->
         Map(LAMBDA v : FPow2[v], linspace(FLog2[LogArgument(betaStart)],
                                           FLog2[LogArgument(betaEnd)], n))
    [] schedule = "exp" ->
         Map(LAMBDA v : FLog2[v], linspace(FPow2[betaStart], FPow2[betaEnd], n))
    [] OTHER -> DefaultBetas(betaStart, betaEnd, n)

(* Variant: the count is at least 2, not at least 1. *)
getBetasAtLeastTwo(params) ==
  GetBetas[params.betaStart, params.betaEnd,
           FMax[Two, FFloor[params.numTimesteps]], params.schedule]

(* Variant: betaStart and betaEnd change places. *)
getBetasSwapped(params) ==
  GetBetas[params.betaEnd, params.betaStart,
           FMax[One, FFloor[params.numTimesteps]], params.schedule]

getBetas(params) ==
  GetBetas[params.betaStart, params.betaEnd,
           FMax[One, FFloor[params.numTimesteps]], params.schedule]

(* Variant: the running product is overwritten by the step's alpha. *)
NextAlphaBarNoCarry(currentAlphaBar, alpha) == alpha

(* currentAlphaBar *= alpha *)
NextAlphaBar(currentAlphaBar, alpha) == FMul[currentAlphaBar, alpha]

(* Variant: the product of alphaBar and 1 - alphaBar, not their ratio. *)
SnrOfProduct(alphaBar, oneMinusAlphaBar) == FMul[alphaBar, oneMinusAlphaBar]

(* Variant: the denominator is clamped from below, not replaced at zero. *)
SnrOfClamped(alphaBar, oneMinusAlphaBar) ==
  FDiv[alphaBar, FMax[DenomFloor, oneMinusAlphaBar]]

(* Variant: the ratio is taken the other way round. *)
SnrOfInverted(alphaBar, oneMinusAlphaBar) ==
  FDiv[IF IsZero(oneMinusAlphaBar) \/ IsNaN(oneMinusAlphaBar)
       THEN DenomFloor ELSE oneMinusAlphaBar,
       alphaBar]

(* currentAlphaBar / (oneMinusAlphaBar || 1e-12): 0 and NaN are falsy. *)
SnrOf(alphaBar, oneMinusAlphaBar) ==
  FDiv[alphaBar,
       IF IsZero(oneMinusAlphaBar) \/ IsNaN(oneMinusAlphaBar)
       THEN DenomFloor ELSE oneMinusAlphaBar]

(* Variant: the logarithm of snr itself. *)
SnrDbOfUnclamped(snr) == FMul[Ten, FLog10[snr]]

(* 10 * Math.log10(Math.max(1e-20, snr)) *)
SnrDbOf(snr) == FMul[Ten, FLog10[FMax[SnrFloor, snr]]]

(* The record of a step from its t, beta, alpha, alphaBar, 1 - alphaBar    *)
(* and snr.                                                                *)
Record[t \in Nat, beta \in Num, alpha \in Num, alphaBar \in Num, oneMinusAlphaBar \in Num, snr \in Num] ==
  [t |-> t, beta |-> beta, alpha |-> alpha, alphaBar |-> alphaBar,
   oneMinusAlphaBar |-> oneMinusAlphaBar,
   sqrtAlphaBar |-> FSqrt[alphaBar],
   sqrtOneMinusAlphaBar |-> FSqrt[oneMinusAlphaBar],
   snr |-> snr, snrDb |-> SnrDbOf(snr)]

(* The body of the loop of calculateSchedule once alpha and the new        *)
(* currentAlphaBar are computed.                                           *)
StepRecord[t \in Nat, beta \in Num, alpha \in Num, alphaBar \in Num, oneMinusAlphaBar \in Num] ==
  Record[t, beta, alpha, alphaBar, oneMinusAlphaBar, SnrOf(alphaBar, oneMinusAlphaBar)]

StepAlphaBar[t \in Nat, beta \in Num, alpha \in Num, alphaBar \in Num] ==
  StepRecord[t, beta, alpha, alphaBar, FSub[One, alphaBar]]

StepAlpha[t \in Nat, beta \in Num, alpha \in Num, currentAlphaBar \in Num] ==
  StepAlphaBar[t, beta, alpha, NextAlphaBar(currentAlphaBar, alpha)]

(* Variant: t is the 0-based index. *)
TimestepDataZeroBased(i, beta, currentAlphaBar) ==
  StepAlpha[i, beta, FSub[One, beta], currentAlphaBar]

(* Variant: alpha is beta, not 1 - beta. *)
TimestepDataAlphaIsBeta(i, beta, currentAlphaBar) ==
  StepAlpha[i + 1, beta, beta, currentAlphaBar]

(* One record of the result: step i (0-based) on the running product. *)
TimestepData(i, beta, currentAlphaBar) ==
  StepAlpha[i + 1, beta, FSub[One, beta], currentAlphaBar]

RECURSIVE ScheduleLoop(_, _, _, _)
(* The for loop of calculateSchedule from index i on. *)
ScheduleLoop(betas, i, currentAlphaBar, results) ==
  IF ~(i < Len(betas)) THEN results
  ELSE With(TimestepData(i, betas[i + 1], currentAlphaBar),
            LAMBDA d : ScheduleLoop(betas, i + 1, d.alphaBar, Append(results, d)))

(* The TimestepData[] last returned.  It is declared ahead of the other     *)
(* variables because the variant below reads it.                           *)
VARIABLES data

(* Variant: the results array outlives the call and is appended to. *)
calculateScheduleAppending(params) ==
  With(getBetas(params), LAMBDA betas : ScheduleLoop(betas, 0, One, data))

(* const results: TimestepData[] = []; let currentAlphaBar = 1; for ... *)
calculateSchedule(params) ==
  With(getBetas(params), LAMBDA betas : ScheduleLoop(betas, 0, One, <<>>))

(* data[data.length - 1].snrDb *)
Terminal(d) == d[Len(d)].snrDb

(* Variant: a third of the way from low to high. *)
MidpointThird(lo, hi) == FAdd[lo, FDiv[FSub[hi, lo], FromInt[3]]]

(* Variant: half the width of the bracket. *)
MidpointHalfWidth(lo, hi) == FDiv[FSub[hi, lo], Two]

(* const mid = (low + high) / 2 *)
Midpoint(lo, hi) == FDiv[FAdd[lo, hi], Two]

(* Variant: the comparison is turned round. *)
MovesLowInverted(finalSnrDb, targetSnrDb) == FLt(finalSnrDb, targetSnrDb)

(* Variant: an equal snrDb moves low too. *)
MovesLowOrEqual(finalSnrDb, targetSnrDb) == FLe(targetSnrDb, finalSnrDb)

(* if (finalSnrDb > targetSnrDb) *)
MovesLow(finalSnrDb, targetSnrDb) == FGt(finalSnrDb, targetSnrDb)

(* Variant: one iteration more. *)
LoopContinuesInclusive(i) == i <= MaxIterations

(* Variant: one iteration fewer. *)
LoopStopsEarly(i) == i < MaxIterations - 1

(* i < 40 *)
LoopContinues(i) == i < MaxIterations

(* Variant: the initial upper bound is returned. *)
ReturnedInitialHigh(lo, hi) == InitialHigh

(* Variant: the lower end of the bracket is returned. *)
ReturnedLow(lo, hi) == lo

(* return high *)
Returned(lo, hi) == hi

(***************************************************************************)
(* The inputs the calls are made with.                                     *)
(***************************************************************************)
MaxSteps == 3
LongSteps == 8

Schedules == {"linear", "quad", "sqrt", "const", "recip", "log", "exp"}

(* A schedule value that is no member of ScheduleType. *)
UnknownSchedule == "cosine"

BetaStarts ==
  { Lit(27487791, -38),      \* 0.0001
    Lit(13421773, -27),      \* 0.1
    Lit(21474837, -30),      \* 0.02
    Lit(20132659, -26) }     \* 0.3

BetaEnds ==
  { Lit(27487791, -37),      \* 0.0002
    Lit(21474837, -30),      \* 0.02
    Lit(20132659, -26),      \* 0.3
    InitialHigh }            \* 0.999

WholeSteps == {FromInt[k] : k \in 1..MaxSteps} \cup {FromInt[LongSteps]}

OtherSteps ==
  { Zero, FromInt[-3],
    Lit(1, -1),              \* 0.5
    Lit(5, -1) }             \* 2.5

(* The targets; NaN is what parseFloat gives the solver for an empty field. *)
Targets == {FromInt[-300], Zero, FromInt[200], NaN}

MaxSolverSteps == 2

SolverStarts ==
  { Lit(21474837, -30),      \* 0.02
    FNeg[One] }

(* A number so large that Huge - (-Huge) overflows. *)
Huge == Rnd[1, 1, MaxExp - 1]

(* The largest finite number: Number.MAX_VALUE. *)
MaxNumber == Rnd[1, 2^Prec - 1, MaxExp - Prec]

(* The betaStart and betaEnd of the direct calls of getBetas. *)
BetaBounds ==
  { Zero, FNeg[One],
    Lit(23058430, -61),      \* 1e-11
    Lit(21474837, -30),      \* 0.02
    MaxNumber }

LinspaceBounds == {Zero, One, FNeg[One], Lit(20132659, -26), Huge, FNeg[Huge]}

NoParams == [betaStart |-> NaN, betaEnd |-> NaN, numTimesteps |-> NaN, schedule |-> "none"]

VARIABLES
  pc,        \* "idle", "linspace", "betas", "schedule", "solving" or "returned"
  params,    \* the arguments of the last calculateSchedule or linspace call
  out,       \* the array the last linspace or getBetas call returned
  args,      \* solveBetaEndForSNR: betaStart, numTimesteps, schedule
  target,    \* solveBetaEndForSNR: targetSnrDb
  low,       \* solveBetaEndForSNR: low
  high,      \* solveBetaEndForSNR: high
  mid,       \* solveBetaEndForSNR: mid of the last iteration
  iter,      \* solveBetaEndForSNR: the loop counter i
  evals,     \* calculateSchedule calls made by the running solveBetaEndForSNR
  known,     \* the betaEnd whose terminal snrDb is the target, or NaN
  ret,       \* the value solveBetaEndForSNR returned
  previousData,  \* what the call before returned, when calculateSchedule is
             \* called twice with the same parameters; <<>> otherwise
  previousRet,   \* what the call before returned, when solveBetaEndForSNR is
             \* called twice with the same arguments; NaN otherwise
  previousArgs,  \* the arguments of the call before, when solveBetaEndForSNR
             \* is called a second time
  lowMoves,  \* solveBetaEndForSNR: the iterations so far that moved low
  csvContent,       \* the csvContent the last downloadCSV call built
  view,      \* the App: what its components last did
  results,   \* the results array of a calculateSchedule call in its loop
  points,    \* comparativeScatterData: the points of that schedule
  mounted,          \* ZoomableChartContainer: it is on the screen
  initialNumSteps,  \* ZoomableChartContainer: the prop
  xDomain,          \* ZoomableChartContainer: useState, <<xMin, xMax>>
  yDomain,          \* ZoomableChartContainer: useState
  isPanning,        \* ZoomableChartContainer: useState
  lastPos,          \* ZoomableChartContainer: useState
  events,           \* the events ZoomableChartContainer has handled
  formParams,       \* App: the state params, the raw texts of the form
  numericParams     \* App: the memo numericParams

(***************************************************************************)
(* The App's form: parseFloat and parseInt on the raw texts, and the memo  *)
(* numericParams.                                                          *)
(***************************************************************************)
(* The decimal digits as characters. *)
Digit == <<"0", "1", "2", "3", "4", "5", "6", "7", "8", "9">>

DigitChars == {Digit[d] : d \in 1..10}

DigitValue(c) == (CHOOSE d \in 1..10 : Digit[d] = c) - 1

(* The index of the first character of text that is no space, or           *)
(* Len(text) + 1: both parsers skip leading white space.                   *)
SkipWhiteSpace(text) ==
  CHOOSE i \in 1..(Len(text) + 1) :
    /\ \A k \in 1..(i - 1) : text[k] = " "
    /\ i = Len(text) + 1 \/ text[i] # " "

(* The index after an optional sign at index i. *)
SkipSign(text, i) == IF i <= Len(text) /\ text[i] \in {"+", "-"} THEN i + 1 ELSE i

(* -1 if a minus sign stands at index i, 1 otherwise. *)
SignAt(text, i) == IF i <= Len(text) /\ text[i] = "-" THEN -1 ELSE 1

(* The index of the last digit of the longest run of digits that begins at *)
(* index i, or i - 1 if no digit stands there.                             *)
DigitsEnd(text, i) ==
  CHOOSE j \in (i - 1)..Len(text) :
    /\ \A k \in i..j : text[k] \in DigitChars
    /\ j = Len(text) \/ text[j + 1] \notin DigitChars

RECURSIVE DigitsValue(_, _, _)
(* The whole number the digits text[i..j] write; 0 if there are none. *)
DigitsValue(text, i, j) ==
  IF j < i THEN 0 ELSE 10 * DigitsValue(text, i, j - 1) + DigitValue(text[j])

(* digits * 10^power as a number. *)
ScaledByTen(sign, digits, power) ==
  IF power >= 0
  THEN FMul[FromInt[sign * digits], FromInt[10^power]]
  ELSE FDiv[FromInt[sign * digits], FromInt[10^(0 - power)]]

(* parseFloat(text): the longest prefix, after white space, that is a      *)
(* decimal literal (sign, digits, point, digits, exponent); NaN if there   *)
(* is none.  (No text of the model begins with Infinity.)                  *)
parseFloat(text) ==
  LET s == SkipWhiteSpace(text)
      i == SkipSign(text, s)
      intEnd == DigitsEnd(text, i)
      hasPoint == intEnd + 1 <= Len(text) /\ text[intEnd + 1] = "."
      fracEnd == IF hasPoint THEN DigitsEnd(text, intEnd + 2) ELSE intEnd
      fracLen == IF hasPoint THEN fracEnd - (intEnd + 1) ELSE 0
      intLen == intEnd - (i - 1)
      hasE == fracEnd + 1 <= Len(text) /\ text[fracEnd + 1] \in {"e", "E"}
      expStart == SkipSign(text, fracEnd + 2)
      expEnd == IF hasE THEN DigitsEnd(text, expStart) ELSE expStart - 1
      hasExp == hasE /\ expEnd >= expStart
      exponent == IF hasExp
                  THEN SignAt(text, fracEnd + 2) * DigitsValue(text, expStart, expEnd)
                  ELSE 0
      digits == DigitsValue(text, i, intEnd) * 10^fracLen
                + (IF hasPoint THEN DigitsValue(text, intEnd + 2, fracEnd) ELSE 0)
  IN IF intLen + fracLen = 0 THEN NaN
     ELSE ScaledByTen(SignAt(text, s), digits, exponent - fracLen)

(* parseInt(text): the longest prefix, after white space, that is a sign   *)
(* and decimal digits; NaN if there is no digit.  (No text of the model    *)
(* begins with 0x.)                                                        *)
parseInt(text) ==
  LET s == SkipWhiteSpace(text)
      i == SkipSign(text, s)
      intEnd == DigitsEnd(text, i)
  IN IF intEnd < i THEN NaN
     ELSE FromInt[SignAt(text, s) * DigitsValue(text, i, intEnd)]

(* value || default: 0 and NaN are falsy. *)
OrDefault(value, default) == IF IsNaN(value) \/ IsZero(value) THEN default ELSE value

DefaultBetaStart == Lit(27487791, -38)    \* 0.0001
DefaultBetaEnd == Lit(21474837, -30)      \* 0.02
DefaultNumTimesteps == FromInt[100]

(* The memo numericParams of the state p: lines 136-141. *)
NumericParams(p) ==
  [betaStart |-> OrDefault(parseFloat(p.betaStart), DefaultBetaStart),
   betaEnd |-> OrDefault(parseFloat(p.betaEnd), DefaultBetaEnd),
   numTimesteps |-> FMax[One, OrDefault(parseInt(p.numTimesteps), DefaultNumTimesteps)],
   schedule |-> p.schedule]

(* The texts typed into the fields. *)
Texts ==
  { <<>>,
    <<"a", "b", "c">>,
    <<"0">>,
    <<"0", ".", "0", "2">>,
    <<"0", ".", "0", "0", "0", "1">>,
    <<"1", "0", "0">>,
    <<"2", ".", "5">>,
    <<"1", "e", "3">>,
    <<"1", "2", "a", "b", "c">>,
    <<" ", "-", "3">> }

(* useState of params: lines 112-117. *)
InitialParams ==
  [betaStart |-> <<"0", ".", "0", "0", "0", "1">>,
   betaEnd |-> <<"0", ".", "0", "2">>,
   numTimesteps |-> <<"1", "0", "0">>,
   schedule |-> "linear"]

(* The state of the engine's calls. *)
engineVars ==
  <<pc, params, out, data, args, target, low, high, mid, iter, evals, known, ret,
    previousData, previousRet, previousArgs, lowMoves, csvContent>>

(* The state of the App's components. *)
scatterVars == <<view, results, points>>

chartVars == <<mounted, initialNumSteps, xDomain, yDomain, isPanning, lastPos, events>>

appVars == <<formParams, numericParams>>

uiVars == <<scatterVars, chartVars, appVars>>

vars == <<engineVars, uiVars>>

Init ==
  /\ pc = "idle"
  /\ params = NoParams
  /\ out = <<>>
  /\ data = <<>>
  /\ args = NoParams
  /\ target = NaN
  /\ low = NaN
  /\ high = NaN
  /\ mid = NaN
  /\ iter = 0
  /\ evals = 0
  /\ known = NaN
  /\ ret = NaN
  /\ previousData = <<>>
  /\ previousRet = NaN
  /\ previousArgs = args
  /\ lowMoves = 0
  /\ csvContent = <<>>
  /\ view = "loop"
  /\ results = <<>>
  /\ points = <<>>
  /\ mounted = FALSE
  /\ initialNumSteps = Zero
  /\ xDomain = <<Zero, Zero>>
  /\ yDomain = <<"auto", "auto">>
  /\ isPanning = FALSE
  /\ lastPos = [x |-> 0, y |-> 0]
  /\ events = 0
  /\ formParams = InitialParams
  /\ numericParams = NumericParams(InitialParams)

(* A call linspace(start, end, n). *)
CallLinspace ==
  /\ pc = "idle"
  /\ \E start \in LinspaceBounds, end \in LinspaceBounds, n \in WholeSteps \cup OtherSteps :
       /\ out' = linspace(start, end, n)
       /\ params' = [NoParams EXCEPT !.betaStart = start, !.betaEnd = end, !.numTimesteps = n]
  /\ pc' = "linspace"
  /\ UNCHANGED <<data, args, target, low, high, mid, iter, evals, known, ret,
                 previousData, previousRet, lowMoves>>
  /\ UNCHANGED <<previousArgs, csvContent>>
  /\ UNCHANGED uiVars

(* A call getBetas(p). *)
CallGetBetas ==
  /\ pc = "idle"
  /\ \E bs \in BetaBounds, be \in BetaBounds, n \in WholeSteps \cup OtherSteps,
        s \in Schedules \cup {UnknownSchedule} :
       LET p == [betaStart |-> bs, betaEnd |-> be, numTimesteps |-> n, schedule |-> s]
       IN /\ params' = p
          /\ out' = getBetas(p)
  /\ pc' = "betas"
  /\ UNCHANGED <<data, args, target, low, high, mid, iter, evals, known, ret,
                 previousData, previousRet, lowMoves>>
  /\ UNCHANGED <<previousArgs, csvContent>>
  /\ UNCHANGED uiVars

(* A call calculateSchedule(p). *)
CallCalculateSchedule ==
  /\ pc = "idle"
  /\ \E bs \in BetaStarts, be \in BetaEnds, n \in WholeSteps \cup OtherSteps,
        s \in Schedules \cup {UnknownSchedule} :
       LET p == [betaStart |-> bs, betaEnd |-> be, numTimesteps |-> n, schedule |-> s]
       IN /\ params' = p
          /\ data' = calculateSchedule(p)
  /\ pc' = "schedule"
  /\ UNCHANGED <<out, args, target, low, high, mid, iter, evals, known, ret,
                 previousData, previousRet, lowMoves>>
  /\ UNCHANGED <<previousArgs, csvContent>>
  /\ UNCHANGED uiVars

(* A second call calculateSchedule(p) with the parameters of the first. *)
CallCalculateScheduleAgain ==
  /\ pc = "schedule"
  /\ previousData = <<>>
  /\ previousData' = data
  /\ data' = calculateSchedule(params)
  /\ UNCHANGED <<pc, params, out, args, target, low, high, mid, iter, evals, known, ret,
                 previousRet, lowMoves>>
  /\ UNCHANGED <<previousArgs, csvContent>>
  /\ UNCHANGED uiVars

(* solveBetaEndForSNR is entered: lines 90-91. *)
Enter(t, bs, n, s, k) ==
  /\ args' = [NoParams EXCEPT !.betaStart = bs, !.numTimesteps = n, !.schedule = s]
  /\ target' = t
  /\ known' = k
  /\ low' = InitialLow
  /\ high' = InitialHigh
  /\ mid' = NaN
  /\ iter' = 0
  /\ evals' = 0
  /\ lowMoves' = 0
  /\ pc' = "solving"

(* A call solveBetaEndForSNR(targetSnrDb, betaStart, numTimesteps, schedule). *)
CallSolve ==
  /\ pc = "idle"
  /\ \E t \in Targets, bs \in SolverStarts, k \in 1..MaxSolverSteps, s \in Schedules :
       Enter(t, bs, FromInt[k], s, NaN)
  /\ UNCHANGED <<params, out, data, ret, previousData, previousRet>>
  /\ UNCHANGED <<previousArgs, csvContent>>
  /\ UNCHANGED uiVars

(* The round trip: solveBetaEndForSNR on the terminal snrDb of the         *)
(* schedule just computed, with that schedule's betaStart, numTimesteps    *)
(* and family.                                                             *)
CallSolveRoundTrip ==
  /\ pc = "schedule"
  /\ params.numTimesteps \in WholeSteps
  /\ params.schedule = "linear"
  /\ Enter(Terminal(data), params.betaStart, params.numTimesteps,
           params.schedule, params.betaEnd)
  /\ previousData' = <<>>
  /\ UNCHANGED <<params, out, data, ret, previousRet>>
  /\ UNCHANGED <<previousArgs, csvContent>>
  /\ UNCHANGED uiVars

(* A second call solveBetaEndForSNR with the arguments of the first. *)
CallSolveAgain ==
  /\ pc = "returned"
  /\ IsNaN(previousRet)
  /\ previousRet' = ret
  /\ previousArgs' = args
  /\ Enter(target, args.betaStart, args.numTimesteps, args.schedule, known)
  /\ UNCHANGED <<params, out, data, ret, previousData>>
  /\ UNCHANGED <<csvContent>>
  /\ UNCHANGED uiVars

(* A second call solveBetaEndForSNR whose arguments differ from those of   *)
(* the first in betaStart only; the first was no round trip.               *)
CallSolveOtherStart ==
  /\ pc = "returned"
  /\ IsNaN(previousRet)
  /\ IsNaN(known)
  /\ previousRet' = ret
  /\ previousArgs' = args
  /\ \E bs \in SolverStarts \ {args.betaStart} :
       Enter(target, bs, args.numTimesteps, args.schedule, known)
  /\ UNCHANGED <<params, out, data, ret, previousData>>
  /\ UNCHANGED <<csvContent>>
  /\ UNCHANGED uiVars

(* One iteration of the loop of solveBetaEndForSNR: lines 94-105. *)
SolveIter ==
  /\ pc = "solving"
  /\ LoopContinues(iter)
  /\ LET m == Midpoint(low, high)
         d == calculateSchedule([betaStart |-> args.betaStart, betaEnd |-> m,
                                 numTimesteps |-> args.numTimesteps,
                                 schedule |-> args.schedule])
         finalSnrDb == Terminal(d)
     IN /\ mid' = m
        /\ data' = d
        /\ IF MovesLow(finalSnrDb, target)
           THEN low' = m /\ high' = high /\ lowMoves' = lowMoves + 1
           ELSE high' = m /\ low' = low /\ lowMoves' = lowMoves
  /\ evals' = evals + 1
  /\ iter' = iter + 1
  /\ UNCHANGED <<pc, params, out, args, target, known, ret, previousData, previousRet>>
  /\ UNCHANGED <<previousArgs, csvContent>>
  /\ UNCHANGED uiVars

(* The loop of solveBetaEndForSNR is left and high is returned: line 107. *)
SolveReturn ==
  /\ pc = "solving"
  /\ ~LoopContinues(iter)
  /\ ret' = Returned(low, high)
  /\ pc' = "returned"
  /\ UNCHANGED <<params, out, data, args, target, low, high, mid, iter, evals, known,
                 previousData, previousRet, lowMoves>>
  /\ UNCHANGED <<previousArgs, csvContent>>
  /\ UNCHANGED uiVars

(***************************************************************************)
(* downloadCSV.  A text is the sequence of its characters.                 *)
(***************************************************************************)
headers ==
  << <<"t">>,
     <<"b", "e", "t", "a">>,
     <<"a", "l", "p", "h", "a">>,
     <<"a", "l", "p", "h", "a", "_", "b", "a", "r">>,
     <<"1", "-", "a", "l", "p", "h", "a", "_", "b", "a", "r">>,
     <<"s", "q", "r", "t", "(", "a", "l", "p", "h", "a", "_", "b", "a", "r", ")">>,
     <<"s", "q", "r", "t", "(", "1", "-", "a", "l", "p", "h", "a", "_", "b", "a", "r", ")">>,
     <<"S", "N", "R">>,
     <<"S", "N", "R", "(", "d", "B", ")">> >>

Comma == <<",">>
LineFeed == <<"\n">>

RECURSIVE DigitsOf(_)
(* The decimal digits of the natural number n. *)
DigitsOf(n) ==
  IF n < 10 THEN <<Digit[n + 1]>>
  ELSE DigitsOf(n \div 10) \o <<Digit[(n % 10) + 1]>>

(* The text of an integer, as Array.prototype.join writes d.t. *)
IntegerToString(n) == IF n < 0 THEN <<"-">> \o DigitsOf(-n) ELSE DigitsOf(n)

(* The text of a number, as Array.prototype.join writes it: NaN, Infinity, *)
(* -Infinity and 0 as Number writes them; any other number by the digits   *)
(* of its significand and of its binary exponent, in the shape of Number's *)
(* exponent notation.  Different numbers have different texts, and no text *)
(* holds a comma or a line feed.                                           *)
NumberToString(v) ==
  IF IsNaN(v) THEN <<"N", "a", "N">>
  ELSE IF v = PosInf THEN <<"I", "n", "f", "i", "n", "i", "t", "y">>
  ELSE IF v = NegInf THEN <<"-", "I", "n", "f", "i", "n", "i", "t", "y">>
  ELSE IF IsZero(v) THEN <<"0">>
  ELSE IntegerToString(v[1]) \o <<"e">> \o IntegerToString(v[2])

RECURSIVE join(_, _)
(* parts.join(separator) *)
join(parts, separator) ==
  IF Len(parts) = 0 THEN <<>>
  ELSE IF Len(parts) = 1 THEN parts[1]
  ELSE parts[1] \o separator \o join(Tail(parts), separator)

(* Variant: beta and alpha change places in the row. *)
RowOfSwapped(d) ==
  << IntegerToString(d.t), NumberToString(d.alpha), NumberToString(d.beta),
     NumberToString(d.alphaBar), NumberToString(d.oneMinusAlphaBar),
     NumberToString(d.sqrtAlphaBar), NumberToString(d.sqrtOneMinusAlphaBar),
     NumberToString(d.snr), NumberToString(d.snrDb) >>

(* One element of rows, each cell as join writes it. *)
RowOf(d) ==
  << IntegerToString(d.t), NumberToString(d.beta), NumberToString(d.alpha),
     NumberToString(d.alphaBar), NumberToString(d.oneMinusAlphaBar),
     NumberToString(d.sqrtAlphaBar), NumberToString(d.sqrtOneMinusAlphaBar),
     NumberToString(d.snr), NumberToString(d.snrDb) >>

(* Variant: the rows are joined by commas, as the cells are. *)
LinesJoinedByComma(lines) == join(lines, Comma)

(* [...].join('\n') *)
LinesJoined(lines) == join(lines, LineFeed)

(* The csvContent of downloadCSV(d): lines 111-123. *)
downloadCSV(d) ==
  LinesJoined(<<join(headers, Comma)>> \o [k \in 1..Len(d) |-> join(RowOf(d[k]), Comma)])

(* A call downloadCSV(data) on the schedule last computed, or on the empty *)
(* array.                                                                  *)
CallDownloadCSV ==
  /\ pc \in {"idle", "schedule"}
  /\ csvContent' = downloadCSV(data)
  /\ pc' = "csv"
  /\ UNCHANGED <<params, out, data, args, target, low, high, mid, iter, evals, known, ret,
                 previousData, previousRet, previousArgs, lowMoves>>
  /\ UNCHANGED uiVars

Next ==
  \/ CallLinspace
  \/ CallGetBetas
  \/ CallCalculateSchedule
  \/ CallCalculateScheduleAgain
  \/ CallSolve
  \/ CallSolveRoundTrip
  \/ CallSolveAgain
  \/ CallSolveOtherStart
  \/ SolveIter
  \/ SolveReturn
  \/ CallDownloadCSV

Spec == Init /\ [][Next]_vars

(***************************************************************************)
(* comparativeScatterData of the App, on a schedule computed step by step. *)
(***************************************************************************)
ScatterSteps == 520
MaxPoints == 250

(* Math.ceil. *)
FCeil(a) == FNeg[FFloor[FNeg[a]]]

(* Variant: the quotient is rounded down. *)
StepOfFloor(length) == ToInt[FMax[One, FFloor[FDiv[FromInt[length], FromInt[MaxPoints]]]]]

(* Math.max(1, Math.ceil(res.data.length / 250)) *)
StepOf(length) == ToInt[FMax[One, FCeil(FDiv[FromInt[length], FromInt[MaxPoints]])]]

(* array.filter((_, i) => Keeps(i)), i the 0-based index. *)
filter(array, Keeps(_)) ==
  LET indexed == [i \in 1..Len(array) |-> <<array[i], i - 1>>]
      kept == SelectSeq(indexed, LAMBDA p : Keeps(p[2]))
  IN [j \in 1..Len(kept) |-> kept[j][1]]

(* The points of one comparativeResults entry with data resData. *)
ScatterPoints(resData) ==
  LET step == StepOf(Len(resData))
  IN filter(resData, LAMBDA i : i % step = 0)

(* The betaEnd of the CONST schedule the loop below computes. *)
ScatterBeta == Lit(21474837, -30)     \* 0.02

(* One pass of the for loop of calculateSchedule, for a CONST schedule of  *)
(* more steps than have been computed: lines 55-76.                        *)
ScheduleLoopStep ==
  /\ view = "loop"
  /\ Len(results) < ScatterSteps
  /\ results' = Append(results,
                       TimestepData(Len(results), ScatterBeta,
                                    IF results = <<>> THEN One
                                    ELSE results[Len(results)].alphaBar))
  /\ UNCHANGED <<view, points>>
  /\ UNCHANGED <<engineVars, chartVars, appVars>>

(* The loop is left with the records computed so far (numTimesteps is      *)
(* their number) and comparativeScatterData maps the result.               *)
ComparativeScatterData ==
  /\ view = "loop"
  /\ Len(results) >= 1
  /\ points' = ScatterPoints(results)
  /\ view' = "scatter"
  /\ UNCHANGED results
  /\ UNCHANGED <<engineVars, chartVars, appVars>>

ScatterNext ==
  \/ ScheduleLoopStep
  \/ ComparativeScatterData

ScatterSpec == Init /\ [][ScatterNext]_vars

(***************************************************************************)
(* ZoomableChartContainer of the App: its state and its event handlers.    *)
(***************************************************************************)
MaxEvents == 5

(* The values of the prop initialNumSteps: currentMaxSteps of the App. *)
InitialSteps == {One, FromInt[100]}

(* The clientX and clientY of the mouse events. *)
ClientXs == {0, 600, 1200}
ClientYs == {300}

(* The deltaY of the wheel events. *)
DeltaYs == {-100, 100}

ZoomOut == Lit(18454938, -24)       \* 1.1
ZoomIn == Lit(15099494, -24)        \* 0.9
MinRange == Two
PadFraction == Lit(13421773, -27)   \* 0.1
PixelsPerRange == FromInt[1000]

(* The component is rendered for the first time: the useState initial      *)
(* values, and the effect that sets xDomain to [0, initialNumSteps].       *)
Mount ==
  /\ ~mounted
  /\ mounted' = TRUE
  /\ \E n \in InitialSteps :
       /\ initialNumSteps' = n
       /\ xDomain' = <<Zero, n>>
  /\ yDomain' = <<"auto", "auto">>
  /\ isPanning' = FALSE
  /\ lastPos' = [x |-> 0, y |-> 0]
  /\ events' = 0
  /\ UNCHANGED <<engineVars, scatterVars, appVars>>

(* What handleWheel sets xDomain to when the new range is above 2. *)
Zoomed(xMin, xMax, newXRange) ==
  LET xCenter == FDiv[FAdd[xMin, xMax], Two]
  IN << FMax[FMul[FNeg[initialNumSteps], PadFraction],
              FSub[xCenter, FDiv[newXRange, Two]]],
        FAdd[xCenter, FDiv[newXRange, Two]] >>

(* handleWheel: lines 35-47. *)
HandleWheel ==
  /\ mounted /\ events < MaxEvents
  /\ \E deltaY \in DeltaYs :
       LET zoomFactor == IF deltaY > 0 THEN ZoomOut ELSE ZoomIn
           xMin == xDomain[1]
           xMax == xDomain[2]
           xRange == FSub[xMax, xMin]
           newXRange == FMul[xRange, zoomFactor]
       IN xDomain' = IF FGt(newXRange, MinRange)
                     THEN Zoomed(xMin, xMax, newXRange)
                     ELSE xDomain
  /\ events' = events + 1
  /\ UNCHANGED <<mounted, initialNumSteps, yDomain, isPanning, lastPos>>
  /\ UNCHANGED <<engineVars, scatterVars, appVars>>

(* handleMouseDown: lines 49-52. *)
HandleMouseDown ==
  /\ mounted /\ events < MaxEvents
  /\ isPanning' = TRUE
  /\ \E clientX \in ClientXs, clientY \in ClientYs :
       lastPos' = [x |-> clientX, y |-> clientY]
  /\ events' = events + 1
  /\ UNCHANGED <<mounted, initialNumSteps, xDomain, yDomain>>
  /\ UNCHANGED <<engineVars, scatterVars, appVars>>

(* handleMouseMove: lines 54-61. *)
HandleMouseMove ==
  /\ mounted /\ events < MaxEvents
  /\ \E clientX \in ClientXs, clientY \in ClientYs :
       IF ~isPanning
       THEN UNCHANGED <<xDomain, lastPos>>
       ELSE LET dx == FromInt[clientX - lastPos.x]
                rangeX == FSub[xDomain[2], xDomain[1]]
                shiftX == FMul[FDiv[dx, PixelsPerRange], rangeX]
            IN /\ xDomain' = <<FSub[xDomain[1], shiftX], FSub[xDomain[2], shiftX]>>
               /\ lastPos' = [x |-> clientX, y |-> clientY]
  /\ events' = events + 1
  /\ UNCHANGED <<mounted, initialNumSteps, yDomain, isPanning>>
  /\ UNCHANGED <<engineVars, scatterVars, appVars>>

(* handleMouseUp, the handler of onMouseUp and of onMouseLeave: line 63. *)
HandleMouseUp ==
  /\ mounted /\ events < MaxEvents
  /\ isPanning' = FALSE
  /\ events' = events + 1
  /\ UNCHANGED <<mounted, initialNumSteps, xDomain, yDomain, lastPos>>
  /\ UNCHANGED <<engineVars, scatterVars, appVars>>

(* reset, the handler of the button and of onDoubleClick: lines 65-68. *)
reset ==
  /\ mounted /\ events < MaxEvents
  /\ xDomain' = <<Zero, initialNumSteps>>
  /\ yDomain' = <<"auto", "auto">>
  /\ events' = events + 1
  /\ UNCHANGED <<mounted, initialNumSteps, isPanning, lastPos>>
  /\ UNCHANGED <<engineVars, scatterVars, appVars>>

ChartNext ==
  \/ Mount
  \/ HandleWheel
  \/ HandleMouseDown
  \/ HandleMouseMove
  \/ HandleMouseUp
  \/ reset

ChartSpec == Init /\ [][ChartNext]_vars

(***************************************************************************)
(* The App's manual configuration.                                         *)
(***************************************************************************)
TextFields == {"betaStart", "betaEnd", "numTimesteps"}

(* handleInputChange for an input or the select, and the render that       *)
(* follows it: lines 188-191 and 136-141.                                  *)
HandleInputChange ==
  /\ \E name \in TextFields \cup {"schedule"} :
       \E value \in (IF name = "schedule" THEN Schedules ELSE Texts) :
         /\ formParams' = [formParams EXCEPT ![name] = value]
         /\ numericParams' = NumericParams(formParams')
  /\ UNCHANGED <<engineVars, scatterVars, chartVars>>

AppNext == HandleInputChange

AppSpec == Init /\ [][AppNext]_vars




(***************************************************************************)
(* Properties of calculateSchedule.                                        *)
(***************************************************************************)

(* C1: for every family and every positive integer numTimesteps N,         *)
(* calculateSchedule returns exactly N records in order, and the record at *)
(* 0-based position i has t = i + 1, so the t values are 1..N.  (data[k]   *)
(* is the record at 0-based position k - 1.)                               *)
C1_RecordPerStep ==
  pc = "schedule" /\ params.numTimesteps \in WholeSteps =>
    /\ FromInt[Len(data)] = params.numTimesteps
    /\ \A k \in 1..Len(data) : data[k].t = (k - 1) + 1

(* A schedule of LongSteps steps was returned, numbered to LongSteps. *)
C1_LongScheduleReturned ==
  /\ pc = "schedule"
  /\ params.numTimesteps = FromInt[LongSteps]
  /\ Len(data) = LongSteps
  /\ data[LongSteps].t = LongSteps

RECURSIVE ProductOfAlphas(_, _)
(* The alphas of records 1..t multiplied from left to right into 1.0. *)
ProductOfAlphas(d, t) ==
  IF t = 0 THEN One ELSE FMul[ProductOfAlphas(d, t - 1), d[t].alpha]

(* The betas of records 1..t all lie in [0, 1]. *)
BetasInUnitInterval(d, t) ==
  \A k \in 1..t : FLe(Zero, d[k].beta) /\ FLe(d[k].beta, One)

IsRunningProduct(d) ==
  \A t \in 1..Len(d) : d[t].alphaBar = ProductOfAlphas(d, t)

(* C2 as stated: for betaStart and betaEnd in (0,1), every family and      *)
(* every step count, each alphaBar is the running product of the alphas of *)
(* records 1..t seeded at 1.0, and 0 < alphaBar <= 1.                      *)
C2_AlphaBarStrictlyPositive ==
  pc = "schedule" =>
    /\ IsRunningProduct(data)
    /\ \A t \in 1..Len(data) :
         FLt(Zero, data[t].alphaBar) /\ FLe(data[t].alphaBar, One)

(* C2, amended: for betaStart and betaEnd in (0,1), every family and every *)
(* step count, each alphaBar is the running product of the alphas of       *)
(* records 1..t seeded at 1.0, and 0 <= alphaBar <= 1 at every step up to  *)
(* which all betas lie in [0,1]; the product can round to exactly 0.       *)
C2_RunningProductInUnitInterval ==
  pc = "schedule" =>
    /\ IsRunningProduct(data)
    /\ \A t \in 1..Len(data) :
         BetasInUnitInterval(data, t) =>
           FLe(Zero, data[t].alphaBar) /\ FLe(data[t].alphaBar, One)

(* A CONST schedule whose running product starts positive and has rounded  *)
(* to 0 by the last of LongSteps steps.                                    *)
C2_ProductReachedZero ==
  /\ pc = "schedule"
  /\ params.schedule = "const"
  /\ Len(data) = LongSteps
  /\ FLt(Zero, data[1].alphaBar)
  /\ FLt(data[2].alphaBar, data[1].alphaBar)
  /\ IsZero(data[LongSteps].alphaBar)
  /\ BetasInUnitInterval(data, LongSteps)

(***************************************************************************)
(* Properties of solveBetaEndForSNR.                                       *)
(***************************************************************************)

(* The running call is a round trip: its target is the terminal snrDb of   *)
(* the schedule of betaEnd = known.                                        *)
IsRoundTrip == ~IsNaN(known)

Tolerance == Lit(17592187, -44)       \* 1e-6

Within(a, b, tol) == FLe(FSub[a, b], tol) /\ FLe(FSub[b, a], tol)

(* Every midpoint evaluated so far that is below known moved low, and      *)
(* every one that is not below known moved high: low only takes midpoints  *)
(* that moved low, high only midpoints that moved high.                    *)
SeparatedAtKnown ==
  /\ FLe(known, high)
  /\ FLt(low, known) \/ (low = InitialLow /\ FLe(InitialLow, known))

C4_FortyIterations ==
  /\ pc = "solving" => iter <= MaxIterations /\ evals = iter
  /\ pc = "returned" => iter = MaxIterations /\ evals = MaxIterations

(* A call returned after 40 evaluations although its bracket had closed:   *)
(* the midpoint of the final bracket is one of its ends.                   *)
C4_ReturnedWithClosedBracket ==
  /\ pc = "returned" /\ ~IsRoundTrip
  /\ evals = MaxIterations
  /\ Midpoint(low, high) \in {low, high}

(* C5: the value solveBetaEndForSNR returns lies in [1e-7, 0.999] for      *)
(* every target, reachable or not, betaStart, numTimesteps and family.     *)
C5_ResultInBracket ==
  pc = "returned" => FLe(InitialLow, ret) /\ FLe(ret, InitialHigh)

(* A call with a target above every terminal snrDb returned: low never     *)
(* moved and the result is below the initial high.                         *)
C5_UnreachableTargetReturned ==
  /\ pc = "returned"
  /\ target = FromInt[200]
  /\ low = InitialLow
  /\ FLt(ret, InitialHigh)

(* C6: each iteration takes mid = (low + high) / 2 and evaluates the       *)
(* schedule with betaEnd = mid; a terminal snrDb strictly above the target *)
(* makes low = mid and leaves high, anything else makes high = mid and     *)
(* leaves low; the function returns high as the last iteration left it.    *)
C6_BisectionStep ==
  [][/\ pc = "solving" /\ pc' = "solving" =>
          /\ mid' = FDiv[FAdd[low, high], Two]
          /\ data' = calculateSchedule([betaStart |-> args.betaStart,
                                        betaEnd |-> mid',
                                        numTimesteps |-> args.numTimesteps,
                                        schedule |-> args.schedule])
          /\ IF FGt(Terminal(data'), target)
             THEN low' = mid' /\ high' = high
             ELSE high' = mid' /\ low' = low
     /\ pc = "solving" /\ pc' = "returned" => ret' = high /\ high' = high]_vars

(* An iteration found the terminal snrDb equal to the target and moved     *)
(* high, after an earlier one had moved low.                               *)
C6_EqualMovedHigh ==
  /\ pc = "solving" /\ iter > 1
  /\ FEq(Terminal(data), target)
  /\ high = mid
  /\ FLt(InitialLow, low) /\ FLt(low, high)

(* The terminal snrDb of the schedule of arguments a with betaEnd = be. *)
TerminalAt(a, be) ==
  Terminal(calculateSchedule([betaStart |-> a.betaStart, betaEnd |-> be,
                              numTimesteps |-> a.numTimesteps,
                              schedule |-> a.schedule]))

ProbeLow == Lit(20132659, -26)        \* 0.3
ProbeHigh == Lit(12582912, -24)       \* 0.75

(* The terminal snrDb rises as betaEnd grows from ProbeLow to ProbeHigh. *)
NotMonotone(a) == FLt(TerminalAt(a, ProbeLow), TerminalAt(a, ProbeHigh))

(* C7: when the terminal snrDb is not monotone in betaEnd, the call still  *)
(* completes all 40 iterations and returns a number; nothing is raised.    *)
(* In the model: while such a call runs, the next iteration can be taken   *)
(* until 40 are done and then the return can, and it returns a finite      *)
(* number after 40 iterations.                                             *)
C7_NonMonotoneCompletes ==
  /\ pc = "solving" /\ NotMonotone(args) =>
       /\ iter <= MaxIterations
       /\ iter < MaxIterations => ENABLED SolveIter
       /\ iter = MaxIterations => ENABLED SolveReturn
  /\ pc = "returned" /\ NotMonotone(args) =>
       iter = MaxIterations /\ IsFinite(ret)

(* A call on a terminal snrDb that rises from -200 dB at ProbeLow to the   *)
(* target at ProbeHigh returned a number after 40 iterations.              *)
C7_NonMonotoneReturned ==
  /\ pc = "returned" /\ NotMonotone(args)
  /\ FEq(TerminalAt(args, ProbeHigh), target)
  /\ iter = MaxIterations
  /\ IsFinite(ret)

(***************************************************************************)
(* Properties of the sequences.                                            *)
(***************************************************************************)

(* A LINEAR schedule with 0 < betaStart < betaEnd < 1 was returned. *)
IsRisingLinear ==
  /\ pc = "schedule" /\ params.schedule = "linear"
  /\ FLt(Zero, params.betaStart) /\ FLt(params.betaStart, params.betaEnd)
  /\ FLt(params.betaEnd, One)

(* C8 as stated: for LINEAR with 0 < betaStart < betaEnd < 1 and any step  *)
(* count, alphaBar and snrDb are both strictly decreasing in t over the    *)
(* whole sequence.                                                         *)
C8_StrictlyDecreasing ==
  IsRisingLinear =>
    \A t \in 1..(Len(data) - 1) :
      /\ FLt(data[t + 1].alphaBar, data[t].alphaBar)
      /\ FLt(data[t + 1].snrDb, data[t].snrDb)

(* C8, amended: for LINEAR with 0 < betaStart < betaEnd < 1 and any step   *)
(* count, alphaBar never increases with t, and snrDb does not increase     *)
(* from a step whose oneMinusAlphaBar is non-zero to the next.             *)
C8_NonIncreasing ==
  IsRisingLinear =>
    \A t \in 1..(Len(data) - 1) :
      /\ FLe(data[t + 1].alphaBar, data[t].alphaBar)
      /\ ~IsZero(data[t].oneMinusAlphaBar) =>
           FLe(data[t + 1].snrDb, data[t].snrDb)

(* A rising LINEAR schedule of LongSteps steps whose first oneMinusAlphaBar *)
(* is zero and whose alphaBar and snrDb fall at every later step.          *)
C8_FallingAfterFirstStep ==
  /\ IsRisingLinear
  /\ Len(data) = LongSteps
  /\ IsZero(data[1].oneMinusAlphaBar)
  /\ \A t \in 2..(LongSteps - 1) :
       /\ ~IsZero(data[t].oneMinusAlphaBar)
       /\ FLt(data[t + 1].alphaBar, data[t].alphaBar)
       /\ FLt(data[t + 1].snrDb, data[t].snrDb)

(* Number.EPSILON: the gap between 1 and the next number. *)
Epsilon == Rnd[1, 1, 1 - Prec]

(* The families whose single beta is betaEnd. *)
EndFamilies == {"const", "recip"}
(* The families whose single beta is computed back from a transform of     *)
(* betaStart by an inexact inverse.                                        *)
RoundedFamilies == {"quad", "log", "exp"}

FloorOf(n) == IF n[2] >= 0 THEN n[1] * 2 ^ n[2] ELSE n[1] \div 2 ^ (0 - n[2])

(* max(1, floor(n)) as an integer. *)
CountFor(n) == IF FloorOf(n) > 1 THEN FloorOf(n) ELSE 1

(* C10: linspace(start, end, n) returns exactly max(1, floor(n)) values    *)
(* for every n, and [start] when that count is 1, whatever end is.         *)
C10_LinspaceCount ==
  pc = "linspace" =>
    /\ Len(out) = CountFor(params.numTimesteps)
    /\ CountFor(params.numTimesteps) = 1 => out = <<params.betaStart>>

(* linspace was called with n = 2.5 and returned 2 values. *)
C10_FractionalCountFloored ==
  /\ pc = "linspace"
  /\ params.numTimesteps = Lit(5, -1)
  /\ Len(out) = 2

FAbs(a) == IF FLt(a, Zero) THEN FNeg[a] ELSE a

(* The step linspace takes for a count of c >= 2. *)
StepFor(start, end, c) == FDiv[FSub[end, start], FromInt[c - 1]]

(* linspace returned count >= 2 values. *)
IsSpacedResult == pc = "linspace" /\ CountFor(params.numTimesteps) >= 2

(* Element i (0-based) of the result is start + step * i. *)
ElementsAreSpaced ==
  \A i \in 0..(Len(out) - 1) :
    out[i + 1] = FAdd[params.betaStart,
                      FMul[StepFor(params.betaStart, params.betaEnd, Len(out)),
                           FromInt[i]]]

BetasOf(d) == [k \in 1..Len(d) |-> d[k].beta]

(* C12: for the CONST family getBetas returns n copies of betaEnd for      *)
(* every betaStart: every beta equals betaEnd and betaStart has no         *)
(* influence.                                                              *)
C12_ConstIsBetaEnd ==
  pc = "schedule" /\ params.schedule = "const" =>
    /\ Len(data) = CountFor(params.numTimesteps)
    /\ \A k \in 1..Len(data) : data[k].beta = params.betaEnd
    /\ \A bs \in BetaStarts \cup {Zero, FNeg[One], NaN} :
         getBetas([params EXCEPT !.betaStart = bs]) = BetasOf(data)

(* A CONST schedule of LongSteps steps with betaStart different from       *)
(* betaEnd holds betaEnd at its first and last step.                       *)
C12_ConstScheduleReturned ==
  /\ pc = "schedule" /\ params.schedule = "const"
  /\ Len(data) = LongSteps
  /\ params.betaStart # params.betaEnd
  /\ data[1].beta = params.betaEnd
  /\ data[LongSteps].beta = params.betaEnd

(* A RECIP schedule was returned. *)
IsRecip == pc = "schedule" /\ params.schedule = "recip"

IsLinearPair == pc = "schedule" /\ params.schedule = "linear" /\ params.numTimesteps = Two

AlphasOf(d) == [k \in 1..Len(d) |-> d[k].alpha]

AlphaBarsOf(d) == [k \in 1..Len(d) |-> d[k].alphaBar]

(* The literals 0.1, 0.3, 0.9 and 0.7 of the two-step example. *)
PairStart == Lit(13421773, -27)
PairEnd == Lit(20132659, -26)
PairFirstAlpha == Lit(15099494, -24)
PairSecondAlpha == Lit(11744051, -24)

(* C14 as stated: for the LINEAR family with numTimesteps = 2 the betas    *)
(* are exactly [betaStart, betaEnd], the alphas [1 - betaStart,            *)
(* 1 - betaEnd] and the alphaBars [1 - betaStart,                          *)
(* (1 - betaStart) * (1 - betaEnd)].                                       *)
C14_LinearPairExact ==
  IsLinearPair =>
    /\ BetasOf(data) = <<params.betaStart, params.betaEnd>>
    /\ AlphasOf(data) = <<FSub[One, params.betaStart], FSub[One, params.betaEnd]>>
    /\ AlphaBarsOf(data) =
         <<FSub[One, params.betaStart],
           FMul[FSub[One, params.betaStart], FSub[One, params.betaEnd]]>>

(* C14, amended: for the LINEAR family with numTimesteps = 2 the betas are *)
(* [betaStart, betaStart + (betaEnd - betaStart)], whose second element is *)
(* betaEnd up to rounding (within 2 * epsilon * max(|betaStart|,           *)
(* |betaEnd|)); each alpha is 1 - beta of its step and the alphaBars are   *)
(* [alpha1, alpha1 * alpha2]; for betaStart = 0.1 and betaEnd = 0.3 the    *)
(* betas are [0.1, 0.3] and the alphas [0.9, 0.7].                         *)
C14_LinearPairRounded ==
  IsLinearPair =>
    /\ Len(data) = 2
    /\ data[1].beta = params.betaStart
    /\ data[2].beta = FAdd[params.betaStart, FSub[params.betaEnd, params.betaStart]]
    /\ Within(data[2].beta, params.betaEnd,
              FMul[FMul[Two, Epsilon], FMax[FAbs(params.betaStart), FAbs(params.betaEnd)]])
    /\ \A k \in 1..2 : data[k].alpha = FSub[One, data[k].beta]
    /\ AlphaBarsOf(data) = <<data[1].alpha, FMul[data[1].alpha, data[2].alpha]>>
    /\ (params.betaStart = PairStart /\ params.betaEnd = PairEnd) =>
         /\ BetasOf(data) = <<PairStart, PairEnd>>
         /\ AlphasOf(data) = <<PairFirstAlpha, PairSecondAlpha>>

(* A two-step LINEAR schedule whose second beta is not betaEnd. *)
C14_SecondBetaOffEnd == IsLinearPair /\ data[2].beta # params.betaEnd

(***************************************************************************)
(* The floor of the snr denominator.                                       *)
(***************************************************************************)

(* C15: in every record calculateSchedule returns, a oneMinusAlphaBar that *)
(* is exactly zero gives snr = alphaBar / 1e-12, a finite value, and a     *)
(* oneMinusAlphaBar that is not zero, whatever its size or sign, gives     *)
(* snr = alphaBar / oneMinusAlphaBar.                                      *)
C15_FloorOnlyAtZero ==
  \A k \in 1..Len(data) :
    /\ IsZero(data[k].oneMinusAlphaBar) =>
         /\ data[k].snr = FDiv[data[k].alphaBar, DenomFloor]
         /\ IsFinite(data[k].snr)
    /\ ~IsZero(data[k].oneMinusAlphaBar) =>
         data[k].snr = FDiv[data[k].alphaBar, data[k].oneMinusAlphaBar]

(* A schedule with a step whose denominator is zero and floored, and a     *)
(* step whose denominator is not zero and is used as it is.                *)
C15_ZeroAndNonZeroDenominator ==
  /\ pc = "schedule"
  /\ \E j, k \in 1..Len(data) :
       /\ IsZero(data[j].oneMinusAlphaBar)
       /\ data[j].snr = FDiv[One, DenomFloor]
       /\ ~IsZero(data[k].oneMinusAlphaBar)
       /\ data[k].snr # FDiv[data[k].alphaBar, DenomFloor]

(***************************************************************************)
(* The floor of snrDb.                                                     *)
(***************************************************************************)
SnrDbFloor == FromInt[-200]

(* C16: every record has snrDb = 10 * log10(max(1e-20, snr)); a snr that   *)
(* is zero, negative or otherwise at most 1e-20 gives a snrDb of exactly   *)
(* -200, and no record has a snrDb below -200.                             *)
C16_SnrDbClamped ==
  \A k \in 1..Len(data) :
    /\ data[k].snrDb = FMul[Ten, FLog10[FMax[SnrFloor, data[k].snr]]]
    /\ FLe(data[k].snr, SnrFloor) => data[k].snrDb = SnrDbFloor
    /\ ~FLt(data[k].snrDb, SnrDbFloor)

(* A schedule with a record whose snr is zero and one whose snr is         *)
(* positive and at most 1e-20, both with a snrDb of -200.                  *)
C16_FlooredSnrDb ==
  /\ pc = "schedule"
  /\ \E j, k \in 1..Len(data) :
       /\ IsZero(data[j].snr) /\ data[j].snrDb = SnrDbFloor
       /\ FGt(data[k].snr, Zero) /\ FLe(data[k].snr, SnrFloor)
       /\ data[k].snrDb = SnrDbFloor

(***************************************************************************)
(* Degenerate inputs.                                                      *)
(***************************************************************************)
FieldsFinite(r) ==
  /\ IsFinite(r.beta) /\ IsFinite(r.alpha) /\ IsFinite(r.alphaBar)
  /\ IsFinite(r.oneMinusAlphaBar) /\ IsFinite(r.sqrtAlphaBar)
  /\ IsFinite(r.sqrtOneMinusAlphaBar) /\ IsFinite(r.snr) /\ IsFinite(r.snrDb)

(* C17: calculateSchedule, called directly or by solveBetaEndForSNR,       *)
(* returns records whose every field is a finite number, for every numeric *)
(* input: zero or negative betaStart or betaEnd, betas that make a         *)
(* denominator zero, step counts below 1.                                  *)
C17_EveryFieldFinite == \A k \in 1..Len(data) : FieldsFinite(data[k])

(* C18: for a numTimesteps below 1 (zero, negative, or a fraction below 1) *)
(* getBetas returns exactly one value and calculateSchedule exactly one    *)
(* record, and for a non-integer numTimesteps of at least 1 they return    *)
(* floor(numTimesteps) values and records.                                 *)
C18_CountCoerced ==
  pc = "schedule" =>
    /\ FLt(params.numTimesteps, One) =>
         Len(getBetas(params)) = 1 /\ Len(data) = 1
    /\ (FLe(One, params.numTimesteps) /\ params.numTimesteps \notin WholeSteps) =>
         /\ Len(getBetas(params)) = FloorOf(params.numTimesteps)
         /\ Len(data) = FloorOf(params.numTimesteps)

(* A schedule for a negative numTimesteps, of one record. *)
C18_NegativeCountOneRecord ==
  pc = "schedule" /\ FLt(params.numTimesteps, Zero) /\ Len(data) = 1

(***************************************************************************)
(* A family outside ScheduleType.                                          *)
(***************************************************************************)
AsLinear(p) == [p EXCEPT !.schedule = "linear"]

(* C20: getBetas called with a schedule value that is none of the seven    *)
(* members of ScheduleType returns the betas of the LINEAR family for the  *)
(* same betaStart, betaEnd and numTimesteps, and so does the schedule      *)
(* built from them.                                                        *)
C20_UnknownFamilyIsLinear ==
  (pc = "schedule" /\ params.schedule \notin Schedules) =>
    /\ getBetas(params) = getBetas(AsLinear(params))
    /\ BetasOf(data) = getBetas(AsLinear(params))
    /\ data = calculateSchedule(AsLinear(params))

(* A schedule of an unknown family with distinct betas. *)
C20_UnknownFamilyReturned ==
  /\ pc = "schedule"
  /\ params.schedule \notin Schedules
  /\ Len(data) >= 2
  /\ data[1].beta # data[2].beta

(***************************************************************************)
(* Repeated calls.                                                         *)
(***************************************************************************)

InitialWidth == FSub[InitialHigh, InitialLow]

(* 2^k as a number. *)
PowerOfTwo(k) == Rnd[1, 1, k]

(* C23 as stated: after k iterations the bracket width high - low equals   *)
(* (0.999 - 1e-7) / 2^k, whichever bounds moved.                           *)
C23_WidthExactlyHalved ==
  pc \in {"solving", "returned"} =>
    FSub[high, low] = FDiv[InitialWidth, PowerOfTwo(iter)]

(* C23, amended: every iteration moves exactly one bound to the midpoint,  *)
(* which lies in the bracket, and leaves the other; the new width is half  *)
(* the old one up to the rounding of the midpoint, within                  *)
(* 2 * epsilon * high of it.                                               *)
C23_WidthHalvedUpToRounding ==
  [][pc = "solving" /\ pc' = "solving" /\ iter' = iter + 1 =>
       /\ (low' = mid' /\ high' = high) \/ (high' = mid' /\ low' = low)
       /\ FLe(low, mid') /\ FLe(mid', high)
       /\ Within(FSub[high', low'], FDiv[FSub[high, low], Two],
                 FMul[FMul[Two, Epsilon], high])]_vars

(* After two iterations the width is not a quarter of the initial width. *)
C23_WidthOffQuarter ==
  /\ pc = "solving" /\ iter = 2
  /\ FSub[high, low] # FDiv[InitialWidth, PowerOfTwo(2)]

(***************************************************************************)
(* The floor of the LOG family.                                            *)
(***************************************************************************)
IsLogBetas == pc = "betas" /\ params.schedule = "log"

(* The betas getBetas returns when each bound below 1e-10 is 1e-10. *)
FlooredBetas ==
  getBetas([params EXCEPT !.betaStart = FMax[LogFloor, params.betaStart],
                          !.betaEnd = FMax[LogFloor, params.betaEnd]])

AllFinitePositive(betas) ==
  \A i \in 1..Len(betas) : IsFinite(betas[i]) /\ FLt(Zero, betas[i])

ComparedEnds == BetaEnds \cup {InitialLow, ProbeLow, ProbeHigh}

(* C25: for every family, betaStart in (0, 1) and numTimesteps, the        *)
(* terminal snrDb of calculateSchedule does not increase when betaEnd      *)
(* increases over [1e-7, 0.999].                                           *)
C25_TerminalNotIncreasing ==
  (pc = "schedule" /\ FLt(Zero, params.betaStart) /\ FLt(params.betaStart, One)) =>
    \A be \in ComparedEnds :
      /\ FLe(params.betaEnd, be) => FLe(TerminalAt(params, be), Terminal(data))
      /\ FLe(be, params.betaEnd) => FLe(Terminal(data), TerminalAt(params, be))

(* A RECIP schedule over several steps whose terminal snrDb is strictly    *)
(* above that of a larger betaEnd and strictly below that of a smaller.    *)
C25_TerminalFalls ==
  /\ pc = "schedule" /\ params.schedule = "recip"
  /\ FLt(Two, params.numTimesteps)
  /\ \E lower, upper \in ComparedEnds :
       /\ FLt(lower, params.betaEnd) /\ FLt(params.betaEnd, upper)
       /\ FLt(Terminal(data), TerminalAt(params, lower))
       /\ FLt(TerminalAt(params, upper), Terminal(data))

(* solveBetaEndForSNR is running or has returned. *)
InSolver == pc \in {"solving", "returned"}

(* The iterations after which the midpoint is certain to lie strictly      *)
(* inside the bracket: fewer halvings than the significand has bits (51    *)
(* for the 53 bits of a number, more than the 40 iterations made).         *)
StrictIterations == Prec - 2

BracketInBounds ==
  /\ FLe(InitialLow, low) /\ FLe(low, high) /\ FLe(high, InitialHigh)
  /\ iter <= StrictIterations => FLt(low, high)

ExceedsAtEvery == lowMoves = iter

(* The terminal snrDb exceeded the target at no midpoint evaluated: every  *)
(* iteration moved high.                                                   *)
ExceedsAtNone == lowMoves = 0

(* 1e-7 + (0.999 - 1e-7) / 2^40 *)
SaturatedLow == FAdd[InitialLow, FDiv[InitialWidth, PowerOfTwo(MaxIterations)]]

(* C27: if the terminal snrDb exceeds the target at every midpoint         *)
(* evaluated, solveBetaEndForSNR returns exactly the initial upper bound   *)
(* 0.999; if it exceeds the target at no midpoint, high moves in all 40    *)
(* iterations and the result is 1e-7 + (0.999 - 1e-7) / 2^40, up to the    *)
(* spacing of the numbers there.                                           *)
C27_Saturation ==
  pc = "returned" =>
    /\ ExceedsAtEvery => ret = InitialHigh /\ high = InitialHigh
    /\ ExceedsAtNone =>
         /\ iter = MaxIterations
         /\ low = InitialLow
         /\ Within(ret, SaturatedLow, FMul[Epsilon, InitialLow])

(* A call with a NaN target returned after high moved in every iteration. *)
C27_NaNTargetSaturated ==
  /\ pc = "returned"
  /\ IsNaN(target)
  /\ iter = MaxIterations
  /\ ExceedsAtNone
  /\ low = InitialLow
  /\ FLt(ret, InitialHigh)

(***************************************************************************)
(* The families that ignore betaStart.                                     *)
(***************************************************************************)
IgnoresBetaStart(schedule) == schedule \in {"const", "recip"}

(* The arguments a and b of solveBetaEndForSNR differ in betaStart only. *)
DiffersInBetaStartOnly(a, b) ==
  /\ a.betaStart # b.betaStart
  /\ [a EXCEPT !.betaStart = b.betaStart] = b

(* C28: for the CONST and RECIP families, two calls of calculateSchedule   *)
(* that differ only in betaStart return identical record sequences, and    *)
(* two calls of solveBetaEndForSNR that differ only in betaStart return    *)
(* the identical betaEnd.                                                  *)
C28_BetaStartIgnored ==
  /\ pc = "schedule" /\ IgnoresBetaStart(params.schedule) =>
       \A bs \in BetaStarts \cup {Zero, FNeg[One], NaN} :
         calculateSchedule([params EXCEPT !.betaStart = bs]) = data
  /\ ( /\ pc = "returned" /\ ~IsNaN(previousRet)
       /\ IgnoresBetaStart(args.schedule)
       /\ DiffersInBetaStartOnly(previousArgs, args) ) => ret = previousRet

(* Two calls of solveBetaEndForSNR for a CONST schedule, differing in      *)
(* betaStart, returned the same betaEnd, found with both bounds moved.     *)
C28_SolvedFromOtherStart ==
  /\ pc = "returned" /\ ~IsNaN(previousRet)
  /\ args.schedule = "const"
  /\ DiffersInBetaStartOnly(previousArgs, args)
  /\ lowMoves > 0 /\ lowMoves < iter
  /\ ret = previousRet

(***************************************************************************)
(* The CSV text.                                                           *)
(***************************************************************************)
(* The positions of the character c in text. *)
PositionsOf(c, text) == {i \in 1..Len(text) : text[i] = c}

(* The k-th smallest member of the set S of numbers. *)
Nth(S, k) == CHOOSE i \in S : Cardinality({j \in S : j < i}) = k - 1

(* text.split(c): the pieces of text between the occurrences of c. *)
split(text, c) ==
  LET S == PositionsOf(c, text)
      n == Cardinality(S) + 1
  IN [k \in 1..n |->
        SubSeq(text,
               IF k = 1 THEN 1 ELSE Nth(S, k - 1) + 1,
               IF k = n THEN Len(text) ELSE Nth(S, k) - 1)]

(* C21: the CSV text built by downloadCSV is the header line               *)
(* t,beta,alpha,alpha_bar,1-alpha_bar,sqrt(alpha_bar),sqrt(1-alpha_bar),   *)
(* SNR,SNR(dB) followed by exactly one row per record in step order, each  *)
(* row holding the record's nine fields in the header's order; a 2-step    *)
(* schedule gives the header plus exactly 2 data rows.                     *)
C21_CsvIsHeaderAndRows ==
  pc = "csv" =>
    LET lines == split(csvContent, "\n") IN
      /\ Len(lines) = 1 + Len(data)
      /\ split(lines[1], ",") = headers
      /\ \A k \in 1..Len(data) :
           LET cells == split(lines[k + 1], ",") IN
             /\ Len(cells) = Len(headers)
             /\ cells[1] = IntegerToString(k)
             /\ cells[2] = NumberToString(data[k].beta)
             /\ cells[3] = NumberToString(data[k].alpha)
             /\ cells[4] = NumberToString(data[k].alphaBar)
             /\ cells[5] = NumberToString(data[k].oneMinusAlphaBar)
             /\ cells[6] = NumberToString(data[k].sqrtAlphaBar)
             /\ cells[7] = NumberToString(data[k].sqrtOneMinusAlphaBar)
             /\ cells[8] = NumberToString(data[k].snr)
             /\ cells[9] = NumberToString(data[k].snrDb)
      /\ Len(data) = 2 => Cardinality(PositionsOf("\n", csvContent)) = 2

(* The CSV text of a 2-step LINEAR schedule: three lines, the first the    *)
(* header, the other two beginning with 1 and 2.                           *)
C21_TwoStepLinearExported ==
  /\ pc = "csv"
  /\ params.schedule = "linear" /\ Len(data) = 2
  /\ Len(split(csvContent, "\n")) = 3
  /\ split(csvContent, "\n")[1] = join(headers, Comma)
  /\ split(split(csvContent, "\n")[2], ",")[1] = <<"1">>
  /\ split(split(csvContent, "\n")[3], ",")[1] = <<"2">>

(***************************************************************************)
(* The points of the comparison scatter chart.                             *)
(***************************************************************************)
(* max(1, ceil(length / 250)) in whole numbers. *)
WholeStepOf(length) ==
  IF (length + MaxPoints - 1) \div MaxPoints > 1
  THEN (length + MaxPoints - 1) \div MaxPoints ELSE 1

(* C30: comparativeScatterData keeps the records at indices i with         *)
(* i mod step = 0, step = max(1, ceil(length / 250)): for every schedule   *)
(* length >= 1 the kept points number at most 250, stay in increasing t    *)
(* order, and always include the record with t = 1; schedules of length    *)
(* <= 250 are kept whole.                                                  *)
C30_ScatterDownsampled ==
  view = "scatter" =>
    LET length == Len(results)
        step == WholeStepOf(length)
    IN /\ Len(points) = (length + step - 1) \div step
       /\ \A j \in 1..Len(points) : points[j] = results[(j - 1) * step + 1]
       /\ Len(points) <= MaxPoints
       /\ \A j \in 1..(Len(points) - 1) : points[j].t < points[j + 1].t
       /\ points[1].t = 1
       /\ length <= MaxPoints => points = results

(* A schedule of 501 records is drawn with every third record, 167 points, *)
(* the last one the record with t = 499.                                   *)
C30_EveryThirdKept ==
  /\ view = "scatter"
  /\ Len(results) = 501
  /\ Len(points) = 167
  /\ points[2].t = 4
  /\ points[167].t = 499

(***************************************************************************)
(* The x-axis domain of ZoomableChartContainer.                            *)
(***************************************************************************)
(* C29: in ZoomableChartContainer, after any sequence of wheel-zoom,       *)
(* mouse-down / mouse-move (pan) / mouse-up or mouse-leave, and reset      *)
(* events, the x-axis domain stays well-formed: xDomain[0] < xDomain[1].   *)
(* (xDomain[1] and xDomain[2] are the code's xDomain[0] and xDomain[1].)   *)
C29_DomainWellFormed == mounted => FLt(xDomain[1], xDomain[2])

(***************************************************************************)
(* The defaults of the App's manual configuration.                         *)
(***************************************************************************)
(* C22: in the App's manual configuration, a raw text field for betaStart, *)
(* betaEnd or numTimesteps is replaced by its default (0.0001, 0.02, 100   *)
(* respectively) exactly when the text is empty or does not parse as a     *)
(* number; every text that parses as a number reaches calculateSchedule as *)
(* that parsed number (numTimesteps raised to at least 1).                 *)
C22_DefaultExactlyWhenUnparsable ==
  /\ numericParams.betaStart =
       IF IsNaN(parseFloat(formParams.betaStart)) THEN DefaultBetaStart
       ELSE parseFloat(formParams.betaStart)
  /\ numericParams.betaEnd =
       IF IsNaN(parseFloat(formParams.betaEnd)) THEN DefaultBetaEnd
       ELSE parseFloat(formParams.betaEnd)
  /\ numericParams.numTimesteps =
       IF IsNaN(parseInt(formParams.numTimesteps)) THEN DefaultNumTimesteps
       ELSE FMax[One, parseInt(formParams.numTimesteps)]

====
